---- MODULE Spec2Model ----
(***************************************************************************)
(* A model of solana-snapshot-etl: the segment reader (AppendVec), the     *)
(* record iterator, the unpacked-snapshot extractor and the account index  *)
(* builder (HistoricalRpc::load).                                          *)
(*                                                                         *)
(* Spec    : HistoricalRpc::load over a snapshot directory, run twice.     *)
(* SpecSeg : AppendVec::new_from_file, get_account and append_vec_iter on  *)
(*           one segment file.                                             *)
(*                                                                         *)
(* Byte quantities are real byte counts.  The machine word is scaled from  *)
(* 64 bits to UsizeBits bits and the 16 GiB file-size limit to             *)
(* 2^MaxFileSizeBits bytes, keeping  header size < file limit < word max.  *)
(***************************************************************************)
EXTENDS Integers, Sequences, FiniteSets, TLC

(* ------------------------------- state --------------------------------- *)

VARIABLES
    accounts_dir,        \* root/accounts/: the [name, file] entries, in read_dir order
    accounts_db_fields,  \* the extractor's registry: slot -> <<[id, accounts_current_len]>>
    pc,                  \* "iter" | "accounts" | "done" | "panicked"
    dir_pos,             \* entries read_dir has yielded
    taken,               \* segments the take(10) adapter has passed on
    append_vec,          \* the segment of the current outer iteration
    iter_offset,         \* append_vec_iter's offset into it
    accounts_taken,      \* records the take(2) adapter has passed on
    account_index,       \* pubkey -> <<slot, id>>
    accounts_bar,        \* position of the records-scanned progress bar
    unique_accounts_bar, \* position of the unique-identities progress bar
    processed,           \* history: the records the loop body has handled
    opened,              \* history: files opened, with the length passed
    last_open,           \* result of the latest open_append_vec call
    panic,               \* which unwrap aborted the process ("none" if none)
    stdout,              \* names printed as PARSE FAIL
    run,                 \* 1: first build, 2: rebuild over the same directory
    first_run,           \* outcome and index of the first build
    seg_len,             \* reader: the declared length handed to new_from_file
    open_result,         \* reader: what new_from_file returned
    probe,               \* reader: the latest get_account call and its result
    stored_sum,          \* reader: sum of stored_size over the handles yielded
    handles,             \* reader: offsets of the handles append_vec_iter has yielded
    snapshots_dir,       \* root/snapshots/: its entries, in read_dir order
    snapshot_files,      \* open: entries the read_dir of root/snapshots/ has yielded
    snapshot_file_path,  \* open: name of the entry found as the manifest (<<>>: none)
    extractor,           \* open: its result, and the slot of the opened extractor
    fs_log,              \* open: history of its file-system and decoding steps
    rpc,                 \* the server's handler: its request and its response
    lookups              \* the get_account calls in flight, one per caller

(* ------------------------------ bounds --------------------------------- *)

\* width of usize / u64 in the model (64 in the build)
UsizeBits == 12
\* log2 of the scaled MAXIMUM_APPEND_VEC_FILE_SIZE (34 in the build)
MaxFileSizeBits == 10
\* most entries of root/accounts/ in a generated snapshot directory
MaxDirLen == 2
\* most records written to a segment file of the reader specification
MaxSegRecs == 2

RECURSIVE Pow2(_)
Pow2(n) == IF n = 0 THEN 1 ELSE 2 * Pow2(n - 1)

UsizeMax == Pow2(UsizeBits) - 1

(* ------------------------- program constants --------------------------- *)

\* mem::size_of::<StoredMeta>(): write_version u64, data_len u64, pubkey [u8; 32]
STORED_META_SIZE == 48
\* mem::size_of::<AccountMeta>(): lamports u64, rent_epoch u64, owner [u8; 32],
\* executable bool, padded to the 8-byte alignment of the struct
ACCOUNT_META_SIZE == 56
\* mem::size_of::<Hash>(): [u8; 32]
HASH_SIZE == 32
\* solana_accounts_db::accounts_file::ALIGN_BOUNDARY_OFFSET = mem::size_of::<u64>()
ALIGN_BOUNDARY_OFFSET == 8
\* solana_accounts_db::append_vec::MAXIMUM_APPEND_VEC_FILE_SIZE (16 GiB), scaled
MAXIMUM_APPEND_VEC_FILE_SIZE == Pow2(MaxFileSizeBits)
\* `.take(10)` on the segment stream in HistoricalRpc::load
TAKE_APPEND_VECS == 10
\* `.take(2)` on the record iterator in HistoricalRpc::load
TAKE_ACCOUNTS == 2

(* ------------------------- file names and parsing ---------------------- *)

Digits == <<"0", "1", "2", "3", "4", "5", "6", "7", "8", "9">>

IsDigit(c) == \E i \in 1..10 : Digits[i] = c

DigitValue(c) == (CHOOSE i \in 1..10 : Digits[i] = c) - 1

RECURSIVE DecimalValue(_)
DecimalValue(s) ==
    IF s = <<>> THEN 0
    ELSE DecimalValue(SubSeq(s, 1, Len(s) - 1)) * 10 + DigitValue(s[Len(s)])

\* u64::from_str: an optional leading '+', then one or more decimal digits whose
\* value fits the integer; anything else is an Err.
u64_from_str(s) ==
    LET digits == IF s # <<>> /\ s[1] = "+" THEN Tail(s) ELSE s IN
    IF digits = <<>> \/ (\E i \in 1..Len(digits) : ~IsDigit(digits[i]))
    THEN [ok |-> FALSE, value |-> 0]
    ELSE IF DecimalValue(digits) > UsizeMax
         THEN [ok |-> FALSE, value |-> 0]
         ELSE [ok |-> TRUE, value |-> DecimalValue(digits)]

\* str::splitn(2, '.'): the text before the first '.', and the text after it
\* (absent when the name holds no '.'; the caller then parses "").
SplitDot(name) ==
    IF \E i \in 1..Len(name) : name[i] = "."
    THEN LET k == CHOOSE i \in 1..Len(name) :
                     name[i] = "." /\ \A j \in 1..(i - 1) : name[j] # "."
         IN <<SubSeq(name, 1, k - 1), SubSeq(name, k + 1, Len(name))>>
    ELSE <<name, <<>>>>

parse_append_vec_name(name) ==
    LET parts == SplitDot(name)
        slot  == u64_from_str(parts[1])
        id    == u64_from_str(parts[2])
    IN IF slot.ok /\ id.ok
       THEN [some |-> TRUE, slot |-> slot.value, id |-> id.value, reported |-> FALSE]
       ELSE [some |-> FALSE, slot |-> 0, id |-> 0, reported |-> TRUE]

(* --------------------------- segment files ----------------------------- *)

\* A segment file: its physical size, the records an upstream writer stored in it
\* (each [pubkey, data_len]), and the value the bytes of an offset that is not
\* the start of a stored record decode to as a data_len.  Bytes past the last
\* stored record are zero.
ZeroPubkey == 0

RECURSIVE RecordStart(_, _)
\* offset of the i-th stored record (i = Len(recs) + 1: where the next would go);
\* the fixed headers take 48 + 56 + 32 bytes and the following record starts
\* at the next multiple of 8 after the payload
RecordStart(recs, i) ==
    IF i = 1 THEN 0
    ELSE ((RecordStart(recs, i - 1) + 136 + recs[i - 1].data_len + 7) \div 8) * 8

\* end of the payload of the last stored record: the length a manifest declares
WrittenEnd(recs) ==
    IF recs = <<>> THEN 0
    ELSE RecordStart(recs, Len(recs)) + 136 + recs[Len(recs)].data_len

\* the StoredMeta fields a reader decodes at `offset`
StoredMetaAt(file, offset) ==
    IF \E i \in 1..Len(file.recs) : RecordStart(file.recs, i) = offset
    THEN LET i == CHOOSE j \in 1..Len(file.recs) : RecordStart(file.recs, j) = offset
         IN [pubkey |-> file.recs[i].pubkey, data_len |-> file.recs[i].data_len]
    ELSE IF offset >= RecordStart(file.recs, Len(file.recs) + 1)
         THEN [pubkey |-> ZeroPubkey, data_len |-> 0]
         ELSE [pubkey |-> ZeroPubkey, data_len |-> file.junk]

(* --------------------------- AppendVec --------------------------------- *)

u64_align_none(addr) == addr

u64_align_down(addr) == (addr \div ALIGN_BOUNDARY_OFFSET) * ALIGN_BOUNDARY_OFFSET

u64_align(addr) ==
    (((addr + (ALIGN_BOUNDARY_OFFSET - 1)) % (UsizeMax + 1))
        \div ALIGN_BOUNDARY_OFFSET) * ALIGN_BOUNDARY_OFFSET

sanitize_len_and_size_no_len_check(current_len, file_size) ==
    IF file_size = 0 THEN "too small file size"
    ELSE IF file_size > MAXIMUM_APPEND_VEC_FILE_SIZE THEN "too large file size"
    ELSE "Ok"

sanitize_len_and_size(current_len, file_size) ==
    IF file_size = 0 THEN "too small file size"
    ELSE IF (IF MAXIMUM_APPEND_VEC_FILE_SIZE <= UsizeMax
             THEN file_size > MAXIMUM_APPEND_VEC_FILE_SIZE
             ELSE TRUE)
         THEN "too large file size"
    ELSE IF current_len > file_size THEN "current_len is larger than file size"
    ELSE "Ok"

NoFile == [size |-> 0, recs |-> <<>>, junk |-> 0]

NoAppendVec == [map |-> NoFile, current_len |-> 0, slot |-> 0, id |-> 0]

\* the entries of a directory are [name, file] in the order read_dir yields them
Exists(dir, name) == \E i \in 1..Len(dir) : dir[i].name = name

FileAt(dir, name) == dir[CHOOSE i \in 1..Len(dir) : dir[i].name = name].file

\* AppendVec::new_from_file on the file `name` of `dir`.  opens: the files it
\* opened (OpenOptions::open is attempted before any validation).  Mmap::map of
\* a file that passed sanitize_len_and_size is taken to succeed.
new_from_file(dir, name, current_len, slot, id) ==
    IF ~Exists(dir, name)
    THEN [ok |-> FALSE, err |-> "No such file", vec |-> NoAppendVec,
          opens |-> <<[name |-> name, current_len |-> current_len]>>]
    ELSE
    LET file  == FileAt(dir, name)
        check == sanitize_len_and_size(current_len, file.size)
    IN IF check # "Ok"
       THEN [ok |-> FALSE, err |-> check, vec |-> NoAppendVec,
             opens |-> <<[name |-> name, current_len |-> current_len]>>]
       ELSE [ok |-> TRUE, err |-> "Ok",
             vec |-> [map |-> file, current_len |-> current_len,
                      slot |-> slot, id |-> id],
             opens |-> <<[name |-> name, current_len |-> current_len]>>]

get_slice_map_len(vec, offset, size) ==
    LET sum  == offset + size
        next == sum % (UsizeMax + 1)
    IN IF sum > UsizeMax \/ next > vec.map.size
       THEN [some |-> FALSE, lo |-> 0, hi |-> 0, next |-> 0]
       ELSE [some |-> TRUE, lo |-> offset, hi |-> next, next |-> u64_align(next)]

get_slice_wrapping(vec, offset, size) ==
    LET next == (offset + size) % (UsizeMax + 1)
    IN IF next > vec.current_len
       THEN [some |-> FALSE, lo |-> 0, hi |-> 0, next |-> 0]
       ELSE [some |-> TRUE, lo |-> offset, hi |-> next, next |-> u64_align(next)]

\* get_slice: the byte range [lo, hi) it references and the aligned next offset
get_slice(vec, offset, size) ==
    LET sum  == offset + size
        next == sum % (UsizeMax + 1)
    IN IF sum > UsizeMax \/ next > vec.current_len
       THEN [some |-> FALSE, lo |-> 0, hi |-> 0, next |-> 0]
       ELSE [some |-> TRUE, lo |-> offset, hi |-> next, next |-> u64_align(next)]

get_type(vec, offset, size) == get_slice(vec, offset, size)

NoAccount ==
    [some |-> FALSE, pubkey |-> ZeroPubkey, data_len |-> 0, offset |-> 0,
     stored_size |-> 0, next |-> 0, data_len_read |-> FALSE, refs |-> {}]

\* AppendVec::get_account.  data_len_read: whether meta.data_len was loaded;
\* refs: the byte ranges of the references it formed before returning.
get_account(vec, offset) ==
    LET meta == get_type(vec, offset, STORED_META_SIZE) IN
    IF ~meta.some THEN NoAccount
    ELSE
    LET account_meta == get_type(vec, meta.next, ACCOUNT_META_SIZE)
        r1 == {<<meta.lo, meta.hi>>}
    IN
    IF ~account_meta.some THEN [NoAccount EXCEPT !.refs = r1]
    ELSE
    LET hash == get_type(vec, account_meta.next, HASH_SIZE)
        r2 == r1 \cup {<<account_meta.lo, account_meta.hi>>}
    IN
    IF ~hash.some THEN [NoAccount EXCEPT !.refs = r2]
    ELSE
    LET stored == StoredMetaAt(vec.map, offset)
        data   == get_slice(vec, hash.next, stored.data_len)
        r3     == r2 \cup {<<hash.lo, hash.hi>>}
    IN
    IF ~data.some THEN [NoAccount EXCEPT !.refs = r3, !.data_len_read = TRUE]
    ELSE [some |-> TRUE, pubkey |-> stored.pubkey, data_len |-> stored.data_len,
          offset |-> offset, stored_size |-> data.next - offset, next |-> data.next,
          data_len_read |-> TRUE, refs |-> r3 \cup {<<data.lo, data.hi>>}]

RECURSIVE append_vec_iter_from(_, _)
\* the handles append_vec_iter yields from `offset` on, as their offsets
append_vec_iter_from(vec, offset) ==
    LET account == get_account(vec, offset) IN
    IF ~account.some THEN <<>>
    ELSE <<offset>> \o append_vec_iter_from(vec, account.next)

append_vec_iter(vec) == append_vec_iter_from(vec, 0)

append_vec_iter_next_stuck(vec, offset) ==
    LET account == get_account(vec, offset) IN
    IF account.some
    THEN [some |-> TRUE, handle |-> offset, offset |-> offset]
    ELSE [some |-> FALSE, handle |-> 0, offset |-> offset]

\* one call of the closure of append_vec_iter: the handle it yields for the
\* record at its offset, and the offset it keeps for the next call
append_vec_iter_next(vec, offset) ==
    LET account == get_account(vec, offset) IN
    IF account.some
    THEN [some |-> TRUE, handle |-> offset, offset |-> account.next]
    ELSE [some |-> FALSE, handle |-> 0, offset |-> offset]

(* ---------------------- UnpackedSnapshotExtractor ---------------------- *)

\* accounts_db_fields.0: slot -> the list of [id, accounts_current_len]
KnownVecs(registry, slot) ==
    IF slot \in DOMAIN registry THEN registry[slot] ELSE <<>>

open_append_vec_lenient(registry, dir, slot, id, name) ==
    LET known_vecs == KnownVecs(registry, slot) IN
    IF ~\E i \in 1..Len(known_vecs) : known_vecs[i].id = id
    THEN new_from_file(dir, name, 0, slot, id)
    ELSE LET known_vec == known_vecs[CHOOSE i \in 1..Len(known_vecs) :
                              known_vecs[i].id = id]
         IN new_from_file(dir, name, known_vec.accounts_current_len, slot, id)

open_append_vec(registry, dir, slot, id, name) ==
    LET known_vecs == KnownVecs(registry, slot) IN
    IF ~\E i \in 1..Len(known_vecs) : known_vecs[i].id = id
    THEN [ok |-> FALSE, err |-> "UnexpectedAppendVec", vec |-> NoAppendVec,
          opens |-> <<>>]
    ELSE LET known_vec == known_vecs[CHOOSE i \in 1..Len(known_vecs) :
                              /\ known_vecs[i].id = id
                              /\ \A j \in 1..(i - 1) : known_vecs[j].id # id]
         IN new_from_file(dir, name, known_vec.accounts_current_len, slot, id)

\* one step of the iterator iter_streams builds over read_dir: the entry is
\* parsed and opened, and both results are unwrapped, so the only items the
\* stream hands to load are opened segments.  read_dir itself is taken to
\* succeed on the directory and on each entry.
iter_streams_next(registry, dir, entry) ==
    LET parsed == parse_append_vec_name(entry.name) IN
    IF ~parsed.some
    THEN [panic |-> "parse_append_vec_name", reported |-> parsed.reported,
          slot |-> 0, id |-> 0,
          open |-> [ok |-> FALSE, err |-> "not called", vec |-> NoAppendVec,
                    opens |-> <<>>]]
    ELSE LET open == open_append_vec(registry, dir, parsed.slot, parsed.id, entry.name)
         IN [panic |-> IF open.ok THEN "none" ELSE "open_append_vec",
             reported |-> FALSE, slot |-> parsed.slot, id |-> parsed.id,
             open |-> open]

(* ------------------------- HistoricalRpc::load ------------------------- *)

EmptyIndex == [k \in {} |-> <<0, 0>>]

index_account_never_overwrites(index, key, slot, id) ==
    LET vacant == key \notin DOMAIN index
        entry  == IF vacant THEN <<slot, id>> ELSE index[key]
    IN [index  |-> [k \in DOMAIN index \cup {key} |->
                        IF k = key THEN entry ELSE index[k]],
        unique |-> IF vacant THEN 1 ELSE 0]

index_account_ties_overwrite(index, key, slot, id) ==
    LET vacant == key \notin DOMAIN index
        entry  == IF vacant THEN <<slot, id>> ELSE index[key]
        value  == IF entry[1] <= slot THEN <<slot, id>> ELSE entry
    IN [index  |-> [k \in DOMAIN index \cup {key} |->
                        IF k = key THEN value ELSE index[k]],
        unique |-> IF vacant THEN 1 ELSE 0]

index_account_ties_vary(index, key, slot, id) ==
    LET vacant == key \notin DOMAIN index
        entry  == IF vacant THEN <<slot, id>> ELSE index[key]
        value  == IF entry[1] < slot \/ (entry[1] = slot /\ run = 2)
                  THEN <<slot, id>> ELSE entry
    IN [index  |-> [k \in DOMAIN index \cup {key} |->
                        IF k = key THEN value ELSE index[k]],
        unique |-> IF vacant THEN 1 ELSE 0]

index_account_counts_overwrites(index, key, slot, id) ==
    LET vacant == key \notin DOMAIN index
        entry  == IF vacant THEN <<slot, id>> ELSE index[key]
        value  == IF entry[1] < slot THEN <<slot, id>> ELSE entry
    IN [index  |-> [k \in DOMAIN index \cup {key} |->
                        IF k = key THEN value ELSE index[k]],
        unique |-> IF vacant \/ entry[1] < slot THEN 1 ELSE 0]

\* the body of the record loop: entry(key).or_insert_with(..), then the
\* overwrite when the stored slot is older.  unique: the increment of
\* unique_accounts_bar.
index_account(index, key, slot, id) ==
    LET vacant == key \notin DOMAIN index
        entry  == IF vacant THEN <<slot, id>> ELSE index[key]
        value  == IF entry[1] < slot THEN <<slot, id>> ELSE entry
    IN [index  |-> [k \in DOMAIN index \cup {key} |->
                        IF k = key THEN value ELSE index[k]],
        unique |-> IF vacant THEN 1 ELSE 0]

envVars == <<accounts_dir, accounts_db_fields>>
loadVars == <<pc, dir_pos, taken, append_vec, iter_offset, accounts_taken, account_index,
              accounts_bar, unique_accounts_bar, processed, opened, last_open,
              panic, stdout, run, first_run>>
loadVarsButPc == <<dir_pos, taken, append_vec, iter_offset, accounts_taken, account_index,
                   accounts_bar, unique_accounts_bar, processed, opened, last_open,
                   panic, stdout, run, first_run>>
segVars == <<seg_len, open_result, probe, stored_sum, handles>>
openVars == <<snapshots_dir, snapshot_files, snapshot_file_path, extractor, fs_log>>
rpcVars == <<rpc, lookups>>
vars == <<envVars, loadVars, segVars, openVars, rpcVars>>

NotOpened == [ok |-> FALSE, err |-> "not called", vec |-> NoAppendVec, opens |-> <<>>]

NotCalled == [called |-> FALSE, slot |-> 0, id |-> 0, name |-> <<>>,
              result |-> NotOpened]

NoProbe == [called |-> FALSE, offset |-> 0, account |-> NoAccount]

\* the reader's variables while the index builder runs
SegIdle ==
    /\ seg_len = 0
    /\ open_result = NotOpened
    /\ probe = NoProbe
    /\ stored_sum = 0
    /\ handles = <<>>

NoFirstRun == [pc |-> "none", index |-> EmptyIndex]

NoExtractor == [result |-> "not called", slot |-> 0]

\* the extractor's variables when open is not the operation under study
OpenIdle ==
    /\ snapshots_dir = <<>>
    /\ snapshot_files = 0
    /\ snapshot_file_path = <<>>
    /\ extractor = NoExtractor
    /\ fs_log = <<>>

NoRpc == [pc |-> "idle"]

\* the service's variables before bind
RpcIdle ==
    /\ rpc = NoRpc
    /\ lookups = <<>>

\* the state in which HistoricalRpc::load enters its loop
LoadStart ==
    /\ pc = "iter"
    /\ dir_pos = 0
    /\ taken = 0
    /\ append_vec = NoAppendVec
    /\ iter_offset = 0
    /\ accounts_taken = 0
    /\ account_index = EmptyIndex
    /\ accounts_bar = 0
    /\ unique_accounts_bar = 0
    /\ processed = <<>>
    /\ opened = <<>>
    /\ last_open = NotCalled
    /\ panic = "none"
    /\ stdout = <<>>

(* ------------------------ snapshot directories ------------------------- *)

RECURSIVE Decimal(_)
Decimal(n) == IF n < 10 THEN <<Digits[n + 1]>>
              ELSE Decimal(n \div 10) \o <<Digits[(n % 10) + 1]>>

SegmentName(slot, id) == Decimal(slot) \o <<".">> \o Decimal(id)

\* names that parse, one of them with a leading zero, and names that do not
GoodNames == {SegmentName(1, 1), SegmentName(1, 2), SegmentName(2, 1),
              <<"0", "1", ".", "2">>}
BadNames == {<<"x", ".", "1">>, <<"7">>}

Rec(pubkey, data_len) == [pubkey |-> pubkey, data_len |-> data_len]

Contents == {<<>>, <<Rec(1, 0)>>, <<Rec(2, 5)>>, <<Rec(1, 0), Rec(2, 5)>>,
             <<Rec(1, 0), Rec(1, 0), Rec(2, 5)>>}

FileOf(recs) == [size |-> WrittenEnd(recs), recs |-> recs, junk |-> 0]

DirEntries ==
    {[name |-> n, file |-> FileOf(c)] : n \in GoodNames, c \in Contents}
    \cup {[name |-> n, file |-> FileOf(<<Rec(1, 0)>>)] : n \in BadNames}

RECURSIVE DirsOfLen(_)
DirsOfLen(n) ==
    IF n = 0 THEN {<<>>}
    ELSE {Append(d, e) : d \in DirsOfLen(n - 1), e \in DirEntries}

Dirs == {d \in UNION {DirsOfLen(n) : n \in 0..MaxDirLen} :
            \A i, j \in 1..Len(d) : i # j => d[i].name # d[j].name}

\* the (slot, id) pairs the names of a directory parse to
ParsedPairs(dir) ==
    {<<parse_append_vec_name(dir[i].name).slot, parse_append_vec_name(dir[i].name).id>> :
        i \in {j \in 1..Len(dir) : parse_append_vec_name(dir[j].name).some}}

\* the length of the first file of the directory whose name parses to the pair
LengthOnDisk(dir, pair) ==
    dir[CHOOSE i \in 1..Len(dir) :
            /\ parse_append_vec_name(dir[i].name).some
            /\ <<parse_append_vec_name(dir[i].name).slot,
                 parse_append_vec_name(dir[i].name).id>> = pair
            /\ \A j \in 1..(i - 1) :
                 <<parse_append_vec_name(dir[j].name).slot,
                   parse_append_vec_name(dir[j].name).id>> # pair
                 \/ ~parse_append_vec_name(dir[j].name).some].file.size

RECURSIVE EntriesOf(_, _)
\* the descriptors of a set of ids, by ascending id
EntriesOf(ids, len) ==
    IF ids = {} THEN <<>>
    ELSE LET i == CHOOSE x \in ids : \A y \in ids : x <= y
         IN <<[id |-> i, accounts_current_len |-> len[i]]>> \o EntriesOf(ids \ {i}, len)

\* a manifest that declares every pair of the directory but `omit`, each with
\* the length on disk, `over` with 8 bytes more than that
ManifestFor(dir, omit, over) ==
    LET pairs    == ParsedPairs(dir) \ {omit}
        slots    == {p[1] : p \in pairs}
        IdsOf(s) == {p[2] : p \in {q \in pairs : q[1] = s}}
        LenOf(s) == [i \in IdsOf(s) |->
                        IF over = <<s, i>> THEN LengthOnDisk(dir, <<s, i>>) + 8
                        ELSE LengthOnDisk(dir, <<s, i>>)]
    IN [s \in slots |-> EntriesOf(IdsOf(s), LenOf(s))]

NoPair == <<0, 0>>

\* a directory of TAKE_APPEND_VECS + 1 single-record segments of slot 1
LongDir == [i \in 1..(TAKE_APPEND_VECS + 1) |->
               [name |-> SegmentName(1, i), file |-> FileOf(<<Rec(1, 0)>>)]]

Init ==
    /\ \/ /\ accounts_dir \in Dirs
          /\ \E omit \in ParsedPairs(accounts_dir) \cup {NoPair},
                over \in ParsedPairs(accounts_dir) \cup {NoPair} :
                /\ omit = NoPair \/ over = NoPair
                /\ accounts_db_fields = ManifestFor(accounts_dir, omit, over)
       \/ /\ accounts_dir = LongDir
          /\ accounts_db_fields = ManifestFor(LongDir, NoPair, NoPair)
    /\ LoadStart
    /\ run = 1
    /\ first_run = NoFirstRun
    /\ SegIdle
    /\ OpenIdle
    /\ RpcIdle

(* ------------------------------ actions -------------------------------- *)

\* the outer loop ends: take(10) is used up, or read_dir has no more entries
LoadFinish ==
    /\ pc = "iter"
    /\ taken = TAKE_APPEND_VECS \/ dir_pos = Len(accounts_dir)
    /\ pc' = "done"
    /\ UNCHANGED <<envVars, openVars, rpcVars, dir_pos, taken, append_vec, iter_offset, accounts_taken,
                   account_index, accounts_bar, unique_accounts_bar, processed,
                   opened, last_open, panic, stdout, run, first_run, segVars>>

\* the outer loop polls iter_streams for the next segment
NextAppendVec ==
    /\ pc = "iter"
    /\ taken < TAKE_APPEND_VECS
    /\ dir_pos < Len(accounts_dir)
    /\ LET entry == accounts_dir[dir_pos + 1]
           step  == iter_streams_next(accounts_db_fields, accounts_dir, entry)
       IN /\ dir_pos' = dir_pos + 1
          /\ stdout' = IF step.reported THEN Append(stdout, entry.name) ELSE stdout
          /\ last_open' = IF step.panic = "parse_append_vec_name"
                          THEN last_open
                          ELSE [called |-> TRUE, slot |-> step.slot, id |-> step.id,
                                name |-> entry.name, result |-> step.open]
          /\ opened' = opened \o step.open.opens
          /\ panic' = step.panic
          /\ IF step.panic # "none"
             THEN /\ pc' = "panicked"
                  /\ UNCHANGED <<taken, append_vec, iter_offset, accounts_taken>>
             ELSE /\ pc' = "accounts"
                  /\ taken' = taken + 1
                  /\ append_vec' = step.open.vec
                  /\ iter_offset' = 0
                  /\ accounts_taken' = 0
    /\ UNCHANGED <<envVars, openVars, rpcVars, account_index, accounts_bar, unique_accounts_bar,
                   processed, run, first_run, segVars>>

\* the body of the record loop, for the next record of the segment
ProcessAccount ==
    /\ pc = "accounts"
    /\ accounts_taken < TAKE_ACCOUNTS
    /\ get_account(append_vec, iter_offset).some
    /\ LET account == get_account(append_vec, iter_offset)
           update  == index_account(account_index, account.pubkey,
                                    append_vec.slot, append_vec.id)
       IN /\ iter_offset' = account.next
          /\ accounts_taken' = accounts_taken + 1
          /\ accounts_bar' = accounts_bar + 1
          /\ account_index' = update.index
          /\ unique_accounts_bar' = unique_accounts_bar + update.unique
          /\ processed' = Append(processed,
                                 [pubkey |-> account.pubkey, slot |-> append_vec.slot,
                                  id |-> append_vec.id])
    /\ UNCHANGED <<envVars, openVars, rpcVars, pc, dir_pos, taken, append_vec, opened, last_open,
                   panic, stdout, run, first_run, segVars>>

\* the record loop ends: take(2) is used up, or get_account returned None
EndAppendVec ==
    /\ pc = "accounts"
    /\ accounts_taken = TAKE_ACCOUNTS \/ ~get_account(append_vec, iter_offset).some
    /\ pc' = "iter"
    /\ append_vec' = NoAppendVec
    /\ iter_offset' = 0
    /\ accounts_taken' = 0
    /\ UNCHANGED <<envVars, openVars, rpcVars, dir_pos, taken, account_index, accounts_bar,
                   unique_accounts_bar, processed, opened, last_open, panic, stdout,
                   run, first_run, segVars>>

\* the program is started again on the unchanged snapshot directory
Rebuild ==
    /\ pc \in {"done", "panicked"}
    /\ run = 1
    /\ run' = 2
    /\ first_run' = [pc |-> pc, index |-> account_index]
    /\ pc' = "iter"
    /\ dir_pos' = 0
    /\ taken' = 0
    /\ append_vec' = NoAppendVec
    /\ iter_offset' = 0
    /\ accounts_taken' = 0
    /\ account_index' = EmptyIndex
    /\ accounts_bar' = 0
    /\ unique_accounts_bar' = 0
    /\ processed' = <<>>
    /\ opened' = <<>>
    /\ last_open' = NotCalled
    /\ panic' = "none"
    /\ stdout' = <<>>
    /\ UNCHANGED <<envVars, openVars, rpcVars, segVars>>

Next == LoadFinish \/ NextAppendVec \/ ProcessAccount \/ EndAppendVec \/ Rebuild

Spec == Init /\ [][Next]_vars

(* ----------------- the segment reader, on one segment ----------------- *)

\* records a segment file may hold: payloads of 0, 5 and 8 bytes, and a
\* length field no file can hold
SegRecs == {Rec(1, 0), Rec(1, 5), Rec(2, 8), Rec(2, UsizeMax)}

RECURSIVE SegContents(_)
SegContents(n) ==
    IF n = 0 THEN {<<>>}
    ELSE SegContents(n - 1)
         \cup {Append(c, r) : c \in {d \in SegContents(n - 1) : Len(d) = n - 1},
                              r \in SegRecs}

\* physical sizes of a file with these records: empty, cut short, exact,
\* padded with room for more records, the limit and beyond it
SegSizes(recs) ==
    {n \in {0, WrittenEnd(recs) - 8, WrittenEnd(recs),
             ((WrittenEnd(recs) + 7) \div 8) * 8 + 144,
             MAXIMUM_APPEND_VEC_FILE_SIZE, MAXIMUM_APPEND_VEC_FILE_SIZE + 1} : n >= 0}

SegFiles ==
    UNION {{[size |-> n, recs |-> c, junk |-> j] : n \in SegSizes(c), j \in {0, 8}} :
              c \in SegContents(MaxSegRecs)}

\* declared lengths for a file: none, the written end, one record less, the
\* aligned end, the physical size and one byte more
SegLens(file) ==
    {n \in {0, WrittenEnd(file.recs), ((WrittenEnd(file.recs) + 7) \div 8) * 8,
             WrittenEnd(file.recs) - 8, file.size, file.size + 1} :
        0 <= n /\ n <= UsizeMax}

SegName == SegmentName(1, 1)

SegFile == accounts_dir[1].file

\* offsets get_account is probed with: multiples of ALIGN_BOUNDARY_OFFSET (the
\* alignment get_type's cast relies on) at the start of the segment, around
\* the declared length and up to the greatest usize
ProbeOffsets(vec) ==
    {o \in {0, 8, 136, 144}
            \cup {vec.current_len + d : d \in {-144, -136, -128, -48, -8, 0, 8}}
            \cup {(UsizeMax + 1) - d : d \in {144, 136, 128, 48, 8}}
            \cup {((vec.current_len + 7) \div 8) * 8} :
        0 <= o /\ o <= UsizeMax /\ o % ALIGN_BOUNDARY_OFFSET = 0}

InitSeg ==
    /\ \E file \in SegFiles :
          /\ accounts_dir = <<[name |-> SegName, file |-> file]>>
          /\ seg_len \in SegLens(file)
    /\ accounts_db_fields = <<>>
    /\ pc = "closed"
    /\ dir_pos = 0
    /\ taken = 0
    /\ append_vec = NoAppendVec
    /\ iter_offset = 0
    /\ accounts_taken = 0
    /\ account_index = EmptyIndex
    /\ accounts_bar = 0
    /\ unique_accounts_bar = 0
    /\ processed = <<>>
    /\ opened = <<>>
    /\ last_open = NotCalled
    /\ panic = "none"
    /\ stdout = <<>>
    /\ run = 1
    /\ first_run = NoFirstRun
    /\ open_result = NotOpened
    /\ probe = NoProbe
    /\ stored_sum = 0
    /\ handles = <<>>
    /\ OpenIdle
    /\ RpcIdle

segIdleVars == <<envVars, openVars, rpcVars, dir_pos, taken, accounts_taken, account_index, accounts_bar,
                 unique_accounts_bar, processed, last_open, panic, stdout, run,
                 first_run, seg_len>>

\* AppendVec::new_from_file(path, current_len, slot, id)
SegOpen ==
    /\ pc = "closed"
    /\ LET result == new_from_file(accounts_dir, SegName, seg_len, 1, 1)
       IN /\ open_result' = result
          /\ opened' = opened \o result.opens
          /\ append_vec' = result.vec
          /\ pc' = IF result.ok THEN "open" ELSE "failed"
    /\ UNCHANGED <<segIdleVars, iter_offset, probe, stored_sum, handles>>

\* AppendVec::get_account(offset) on the open segment
SegGetAccount ==
    /\ pc = "open"
    /\ \E o \in ProbeOffsets(append_vec) :
          probe' = [called |-> TRUE, offset |-> o, account |-> get_account(append_vec, o)]
    /\ UNCHANGED <<segIdleVars, pc, append_vec, iter_offset, opened, open_result,
                   stored_sum, handles>>

\* append_vec_iter's closure finds a record and yields its handle
SegIterNext ==
    /\ pc \in {"open", "iterating"}
    /\ append_vec_iter_next(append_vec, iter_offset).some
    /\ LET step    == append_vec_iter_next(append_vec, iter_offset)
           account == get_account(append_vec, step.handle)
       IN /\ iter_offset' = step.offset
          /\ handles' = Append(handles, step.handle)
          /\ stored_sum' = stored_sum + account.stored_size
          /\ accounts_taken' = accounts_taken + 1
    /\ pc' = "iterating"
    /\ probe' = NoProbe
    /\ UNCHANGED <<envVars, openVars, rpcVars, dir_pos, taken, account_index, accounts_bar,
                   unique_accounts_bar, processed, last_open, panic, stdout, run,
                   first_run, seg_len, append_vec, opened, open_result>>

\* append_vec_iter's closure gets None: take_while ends the sequence
SegIterEnd ==
    /\ pc \in {"open", "iterating"}
    /\ ~append_vec_iter_next(append_vec, iter_offset).some
    /\ pc' = "exhausted"
    /\ probe' = NoProbe
    /\ UNCHANGED <<segIdleVars, append_vec, iter_offset, opened, open_result,
                   stored_sum, handles>>

NextSeg == SegOpen \/ SegGetAccount \/ SegIterNext \/ SegIterEnd

SpecSeg == InitSeg /\ [][NextSeg]_vars

(* ------------------ UnpackedSnapshotExtractor::open -------------------- *)

\* most entries of root/snapshots/ in a generated directory
MaxSnapLen == 3

\* `.take(10)` on the read_dir of root/snapshots/ in open
TAKE_SNAPSHOT_FILES == 10

\* solana_runtime::snapshot_utils::SNAPSHOT_STATUS_CACHE_FILENAME
SNAPSHOT_STATUS_CACHE_FILENAME ==
    <<"s", "t", "a", "t", "u", "s", "_", "c", "a", "c", "h", "e">>

\* An entry of root/snapshots/ is [name, is_file, manifest]: whether it is a
\* regular file, and what the path <name>/<name> below it holds: nothing that
\* can be opened ("absent"), bytes that do not decode as bank fields
\* ("corrupt_bank"), bank fields followed by bytes that do not decode as accounts
\* DB fields ("corrupt_fields"), or both structures ("valid", with the bank's
\* slot and the registry).
NoManifest == [state |-> "absent", slot |-> 0, fields |-> <<>>]

Manifest(state, slot) ==
    [state |-> state, slot |-> slot,
     fields |-> [s \in {slot} |-> <<[id |-> 1, accounts_current_len |-> 136]>>]]

status_cache_exists(dir) ==
    \E i \in 1..Len(dir) : dir[i].name = SNAPSHOT_STATUS_CACHE_FILENAME

\* snapshots_dir.join(SNAPSHOT_STATUS_CACHE_FILENAME).is_file()
status_cache_is_file(dir) ==
    \E i \in 1..Len(dir) :
        dir[i].name = SNAPSHOT_STATUS_CACHE_FILENAME /\ dir[i].is_file

\* the predicate of `find`: u64::from_str(&entry.file_name()).is_ok()
is_manifest_name(name) == u64_from_str(name).ok

SnapEntry(name, is_file, manifest) ==
    [name |-> name, is_file |-> is_file, manifest |-> manifest]

\* the marker as a file and as a directory; integer names (one with a sign, one
\* too large for the integer) over valid, undecodable and missing manifests;
\* names that are no integers
SnapEntries ==
    {SnapEntry(SNAPSHOT_STATUS_CACHE_FILENAME, TRUE, NoManifest),
     SnapEntry(SNAPSHOT_STATUS_CACHE_FILENAME, FALSE, NoManifest),
     SnapEntry(<<"7">>, FALSE, Manifest("valid", 7)),
     SnapEntry(<<"7">>, FALSE, Manifest("corrupt_bank", 0)),
     SnapEntry(<<"7">>, TRUE, NoManifest),
     SnapEntry(<<"1", "2">>, FALSE, Manifest("valid", 3)),
     SnapEntry(<<"1", "2">>, FALSE, Manifest("corrupt_fields", 3)),
     SnapEntry(<<"+", "5">>, FALSE, Manifest("valid", 5)),
     SnapEntry(Decimal(UsizeMax) \o <<"0">>, FALSE, Manifest("valid", 1)),
     SnapEntry(<<"t", "m", "p">>, FALSE, NoManifest),
     SnapEntry(<<"x", "1">>, TRUE, NoManifest)}

RECURSIVE SnapDirsOfLen(_)
SnapDirsOfLen(n) ==
    IF n = 0 THEN {<<>>}
    ELSE {Append(d, e) : d \in SnapDirsOfLen(n - 1), e \in SnapEntries}

\* the marker, then k entries that are no manifests, then a valid manifest
LongSnapDir(k) ==
    [i \in 1..(k + 2) |->
        IF i = 1 THEN SnapEntry(SNAPSHOT_STATUS_CACHE_FILENAME, TRUE, NoManifest)
        ELSE IF i = k + 2 THEN SnapEntry(<<"7">>, FALSE, Manifest("valid", 7))
        ELSE SnapEntry(<<"f">> \o Decimal(i), FALSE, NoManifest)]

SnapDirs ==
    {d \in UNION {SnapDirsOfLen(n) : n \in 0..MaxSnapLen} :
        \A i, j \in 1..Len(d) : i # j => d[i].name # d[j].name}
    \cup {LongSnapDir(k) : k \in (TAKE_SNAPSHOT_FILES - 3)..TAKE_SNAPSHOT_FILES}

InitOpen ==
    /\ snapshots_dir \in SnapDirs
    /\ snapshot_files = 0
    /\ snapshot_file_path = <<>>
    /\ extractor = NoExtractor
    /\ fs_log = <<>>
    /\ accounts_dir = <<>>
    /\ accounts_db_fields = <<>>
    /\ pc = "open"
    /\ dir_pos = 0
    /\ taken = 0
    /\ append_vec = NoAppendVec
    /\ iter_offset = 0
    /\ accounts_taken = 0
    /\ account_index = EmptyIndex
    /\ accounts_bar = 0
    /\ unique_accounts_bar = 0
    /\ processed = <<>>
    /\ opened = <<>>
    /\ last_open = NotCalled
    /\ panic = "none"
    /\ stdout = <<>>
    /\ run = 1
    /\ first_run = NoFirstRun
    /\ SegIdle
    /\ RpcIdle

openIdleVars == <<accounts_dir, loadVarsButPc, segVars, rpcVars, snapshots_dir>>

\* open tests the status cache marker: absent, it returns NoStatusCache
OpenStatusCache ==
    /\ pc = "open"
    /\ fs_log' = Append(fs_log, [op |-> "is_file", name |-> SNAPSHOT_STATUS_CACHE_FILENAME])
    /\ IF status_cache_is_file(snapshots_dir)
       THEN /\ pc' = "find"
            /\ UNCHANGED extractor
       ELSE /\ pc' = "failed"
            /\ extractor' = [result |-> "NoStatusCache", slot |-> 0]
    /\ UNCHANGED <<openIdleVars, accounts_db_fields, snapshot_files, snapshot_file_path>>

\* `find` polls the read_dir of root/snapshots/ behind take(10) for one entry
OpenFindNext ==
    /\ pc = "find"
    /\ snapshot_files < TAKE_SNAPSHOT_FILES
    /\ snapshot_files < Len(snapshots_dir)
    /\ LET entry == snapshots_dir[snapshot_files + 1]
       IN /\ snapshot_files' = snapshot_files + 1
          /\ fs_log' = Append(fs_log, [op |-> "read_dir", name |-> entry.name])
          /\ IF is_manifest_name(entry.name)
             THEN /\ snapshot_file_path' = entry.name
                  /\ pc' = "read"
             ELSE UNCHANGED <<snapshot_file_path, pc>>
    /\ UNCHANGED <<openIdleVars, accounts_db_fields, extractor>>

\* `find` ends without an entry: open returns NoSnapshotManifest
OpenFindNone ==
    /\ pc = "find"
    /\ snapshot_files = TAKE_SNAPSHOT_FILES \/ snapshot_files = Len(snapshots_dir)
    /\ pc' = "failed"
    /\ extractor' = [result |-> "NoSnapshotManifest", slot |-> 0]
    /\ UNCHANGED <<openIdleVars, accounts_db_fields, snapshot_files, snapshot_file_path,
                   fs_log>>

\* the manifest <name>/<name> is opened and its two structures are decoded
OpenManifest ==
    /\ pc = "read"
    /\ LET entry    == snapshots_dir[CHOOSE i \in 1..Len(snapshots_dir) :
                                        snapshots_dir[i].name = snapshot_file_path]
           manifest == entry.manifest
           open_op  == [op |-> "open", name |-> snapshot_file_path]
           bank_op  == [op |-> "deserialize bank", name |-> snapshot_file_path]
           db_op    == [op |-> "deserialize accounts db", name |-> snapshot_file_path]
       IN IF manifest.state = "absent"
          THEN /\ fs_log' = Append(fs_log, open_op)
               /\ extractor' = [result |-> "IoError", slot |-> 0]
               /\ pc' = "failed"
               /\ UNCHANGED accounts_db_fields
          ELSE IF manifest.state = "corrupt_bank"
          THEN /\ fs_log' = fs_log \o <<open_op, bank_op>>
               /\ extractor' = [result |-> "BincodeError", slot |-> 0]
               /\ pc' = "failed"
               /\ UNCHANGED accounts_db_fields
          ELSE IF manifest.state = "corrupt_fields"
          THEN /\ fs_log' = fs_log \o <<open_op, bank_op, db_op>>
               /\ extractor' = [result |-> "BincodeError", slot |-> 0]
               /\ pc' = "failed"
               /\ UNCHANGED accounts_db_fields
          ELSE /\ fs_log' = fs_log \o <<open_op, bank_op, db_op>>
               /\ extractor' = [result |-> "Ok", slot |-> manifest.slot]
               /\ accounts_db_fields' = manifest.fields
               /\ pc' = "opened"
    /\ UNCHANGED <<openIdleVars, snapshot_files, snapshot_file_path>>

NextOpen == OpenStatusCache \/ OpenFindNext \/ OpenFindNone \/ OpenManifest

SpecOpen == InitOpen /\ [][NextOpen]_vars

(* ------------- the query service: getAccountInfo, get_account ---------- *)

\* most get_account calls in flight beside the one of the server's handler
MaxLookups == 1

\* callers of get_account: 0 is the handler of getAccountInfo (bind starts the
\* server with threads(1)), the others call get_account themselves
Callers == 0..MaxLookups

\* identities a request may name; identity 3 is in no segment
Keys == {1, 2, 3}

None == [some |-> FALSE, value |-> 0]

Some(v) == [some |-> TRUE, value |-> v]

\* RpcAccountInfoConfig::default(): no encoding, no data_slice, no min_context_slot
DefaultConfig == [encoding |-> "None", data_slice |-> FALSE, min_context_slot |-> None]

\* `config: None`
NoConfig == [some |-> FALSE, value |-> DefaultConfig]

\* the `config: Option<RpcAccountInfoConfig>` values a request is drawn from
Configs(slot) ==
    {NoConfig}
    \cup {Some([encoding |-> e, data_slice |-> d, min_context_slot |-> m]) :
            e \in {"None", "Base58", "Base64"}, d \in {FALSE, TRUE},
            m \in {None, Some(slot), Some(slot + 1)}}

\* pubkey strings: the base58 text of an identity, or text that is no pubkey
PubkeyStrs == {[base58 |-> TRUE, key |-> k] : k \in Keys} \cup {[base58 |-> FALSE, key |-> 0]}

\* solana_rpc::rpc::verify_pubkey
verify_pubkey(pubkey) ==
    IF pubkey.base58 THEN [ok |-> TRUE, key |-> pubkey.key] ELSE [ok |-> FALSE, key |-> 0]

\* Option<Account>::None
NoneAccount == [some |-> FALSE,
                value |-> [file |-> <<>>, map |-> NoFile, offset |-> 0, pubkey |-> 0,
                           data_len |-> 0]]

Err(message) == [kind |-> "Err", err |-> message, context |-> 0, value |-> NoneAccount]

Pass == [kind |-> "Pass", err |-> "", context |-> 0, value |-> NoneAccount]

get_account_info_checks_lookup_first(meta, pubkey, config) ==
    LET verified == verify_pubkey(pubkey)
        cfg      == IF config.some THEN config.value ELSE DefaultConfig
        min_context_slot ==
            IF cfg.min_context_slot.some THEN cfg.min_context_slot.value ELSE 0
    IN IF ~verified.ok THEN Err("Invalid param")
       ELSE IF verified.key \notin DOMAIN meta.account_index THEN Pass
       ELSE IF cfg.encoding # "Base64" THEN Err("Expected base64 encoding")
       ELSE IF cfg.data_slice THEN Err("Account data_slice unsupported")
       ELSE IF min_context_slot > meta.slot THEN Err("Min context slot not reached")
       ELSE Pass

get_account_info_checks_slot_inclusive(meta, pubkey, config) ==
    LET verified == verify_pubkey(pubkey)
        cfg      == IF config.some THEN config.value ELSE DefaultConfig
        min_context_slot ==
            IF cfg.min_context_slot.some THEN cfg.min_context_slot.value ELSE 0
    IN IF ~verified.ok THEN Err("Invalid param")
       ELSE IF cfg.encoding # "Base64" THEN Err("Expected base64 encoding")
       ELSE IF cfg.data_slice THEN Err("Account data_slice unsupported")
       ELSE IF min_context_slot >= meta.slot THEN Err("Min context slot not reached")
       ELSE Pass

get_account_info_checks_encoding_optional(meta, pubkey, config) ==
    LET verified == verify_pubkey(pubkey)
        cfg      == IF config.some THEN config.value ELSE DefaultConfig
        min_context_slot ==
            IF cfg.min_context_slot.some THEN cfg.min_context_slot.value ELSE 0
    IN IF ~verified.ok THEN Err("Invalid param")
       ELSE IF cfg.encoding \notin {"None", "Base64"} THEN Err("Expected base64 encoding")
       ELSE IF cfg.data_slice THEN Err("Account data_slice unsupported")
       ELSE IF min_context_slot > meta.slot THEN Err("Min context slot not reached")
       ELSE Pass

\* get_account_info up to "Load the account": verify_pubkey, then the checks of
\* encoding, data_slice and min_context_slot, in this order.  meta is the
\* HistoricalRpc the handler is given: [slot, account_index].
get_account_info_checks(meta, pubkey, config) ==
    LET verified == verify_pubkey(pubkey)
        cfg      == IF config.some THEN config.value ELSE DefaultConfig
        min_context_slot ==
            IF cfg.min_context_slot.some THEN cfg.min_context_slot.value ELSE 0
    IN IF ~verified.ok THEN Err("Invalid param")
       ELSE IF cfg.encoding # "Base64" THEN Err("Expected base64 encoding")
       ELSE IF cfg.data_slice THEN Err("Account data_slice unsupported")
       ELSE IF min_context_slot > meta.slot THEN Err("Min context slot not reached")
       ELSE Pass

index_remove(index, key) ==
    IF key \in DOMAIN index
    THEN [some |-> TRUE, value |-> index[key],
          index |-> [k \in DOMAIN index \ {key} |-> index[k]]]
    ELSE [some |-> FALSE, value |-> <<0, 0>>, index |-> index]

\* self.account_index.get(key): the entry, and the map as the call leaves it
index_get(index, key) ==
    IF key \in DOMAIN index
    THEN [some |-> TRUE, value |-> index[key], index |-> index]
    ELSE [some |-> FALSE, value |-> <<0, 0>>, index |-> index]

\* clone_account of the record at `offset` of the segment: the copy holds the
\* balance, owner, executable flag, rent epoch and data stored there
clone_account(vec, name, account) ==
    [file |-> name, map |-> vec.map, offset |-> account.offset,
     pubkey |-> account.pubkey, data_len |-> account.data_len]

NoLookup == [pc |-> "idle", key |-> 0, slot |-> 0, id |-> 0, vec |-> NoAppendVec,
             offset |-> 0, opens |-> <<>>, result |-> NoneAccount]

\* one poll of `find` over append_vec_iter in get_account: the record at the
\* caller's offset is compared with the key
find_next(lookup) ==
    LET account == get_account(lookup.vec, lookup.offset) IN
    IF ~account.some
    THEN [lookup EXCEPT !.pc = "panicked"]
    ELSE IF account.pubkey = lookup.key
         THEN [lookup EXCEPT !.pc = "returned",
                             !.result = Some(clone_account(lookup.vec,
                                                 SegmentName(lookup.slot, lookup.id),
                                                 account))]
         ELSE [lookup EXCEPT !.offset = account.next]

\* HistoricalRpc::get_account run from start to end with nothing in between:
\* the index entry, the segment accounts/{slot}.{id} opened through the
\* extractor, the first record of its iteration with the key; both unwraps
HistoricalRpc_get_account(index, registry, dir, key) ==
    IF key \notin DOMAIN index THEN [pc |-> "returned", result |-> NoneAccount]
    ELSE
    LET slot == index[key][1]
        id   == index[key][2]
        path == SegmentName(slot, id)
        open == open_append_vec(registry, dir, slot, id, path)
    IN IF ~open.ok THEN [pc |-> "panicked", result |-> NoneAccount]
       ELSE
       LET yielded == append_vec_iter(open.vec)
           found   == {n \in 1..Len(yielded) :
                          get_account(open.vec, yielded[n]).pubkey = key}
       IN IF found = {} THEN [pc |-> "panicked", result |-> NoneAccount]
          ELSE LET n == CHOOSE m \in found : \A l \in found : m <= l
               IN [pc |-> "returned",
                   result |-> Some(clone_account(open.vec, path,
                                                 get_account(open.vec, yielded[n])))]

\* the segment directories the service is built over: one segment; an identity
\* rewritten at a later slot; a segment of three records; one slot in two
\* segments; a name with a leading zero, alone and beside the plain name; none
RpcDirs ==
    {<<>>,
     <<[name |-> SegmentName(1, 1), file |-> FileOf(<<Rec(1, 0), Rec(2, 5)>>)]>>,
     <<[name |-> SegmentName(1, 1), file |-> FileOf(<<Rec(1, 0)>>)],
       [name |-> SegmentName(2, 1), file |-> FileOf(<<Rec(2, 5), Rec(1, 0)>>)]>>,
     <<[name |-> SegmentName(2, 1), file |-> FileOf(<<Rec(1, 0), Rec(1, 0), Rec(2, 5)>>)]>>,
     <<[name |-> SegmentName(1, 2), file |-> FileOf(<<Rec(2, 5)>>)],
       [name |-> SegmentName(1, 1), file |-> FileOf(<<Rec(2, 5), Rec(1, 0)>>)]>>,
     <<[name |-> <<"0", "1", ".", "2">>, file |-> FileOf(<<Rec(1, 0)>>)]>>,
     <<[name |-> <<"0", "1", ".", "2">>, file |-> FileOf(<<Rec(1, 0)>>)],
       [name |-> SegmentName(1, 2), file |-> FileOf(<<Rec(2, 5)>>)]>>}

\* slots the manifest's bank may carry
CanonicalSlots == {0, 2}

InitRpc ==
    /\ accounts_dir \in RpcDirs
    /\ accounts_db_fields = ManifestFor(accounts_dir, NoPair, NoPair)
    /\ LoadStart
    /\ run = 1
    /\ first_run = NoFirstRun
    /\ SegIdle
    /\ snapshots_dir = <<>>
    /\ snapshot_files = 0
    /\ snapshot_file_path = <<>>
    /\ \E slot \in CanonicalSlots : extractor = [result |-> "Ok", slot |-> slot]
    /\ fs_log = <<>>
    /\ RpcIdle

rpcIdleVars == <<envVars, openVars, loadVarsButPc, segVars>>

\* load has returned: bind shares the HistoricalRpc and starts the server
Bind ==
    /\ pc = "done"
    /\ pc' = "serving"
    /\ rpc' = NoRpc
    /\ lookups' = [t \in Callers |-> NoLookup]
    /\ UNCHANGED rpcIdleVars

\* getAccountInfo is received: the arguments are validated; a request that
\* passes goes on to get_account
RpcRequest ==
    /\ pc = "serving"
    /\ rpc.pc = "idle"
    /\ \E pubkey \in PubkeyStrs, config \in Configs(extractor.slot) :
          LET meta  == [slot |-> extractor.slot, account_index |-> account_index]
              check == get_account_info_checks(meta, pubkey, config)
          IN IF check.kind = "Err"
             THEN /\ rpc' = [pc |-> "responded", pubkey |-> pubkey, config |-> config,
                             response |-> check, looked_up |-> FALSE]
                  /\ UNCHANGED lookups
             ELSE /\ rpc' = [pc |-> "lookup", pubkey |-> pubkey, config |-> config,
                             response |-> check, looked_up |-> TRUE]
                  /\ lookups' = [lookups EXCEPT ![0] =
                                    [NoLookup EXCEPT !.pc = "start",
                                                     !.key = verify_pubkey(pubkey).key]]
    /\ UNCHANGED <<rpcIdleVars, pc>>

\* another caller calls get_account
LookupCall(t) ==
    /\ pc = "serving"
    /\ t # 0
    /\ lookups[t].pc = "idle"
    /\ \E key \in Keys :
          lookups' = [lookups EXCEPT ![t] = [NoLookup EXCEPT !.pc = "start", !.key = key]]
    /\ UNCHANGED <<rpcIdleVars, pc, rpc>>

\* get_account reads the index: an identity that is not indexed returns None
LookupIndex(t) ==
    /\ pc = "serving"
    /\ lookups[t].pc = "start"
    /\ LET got == index_get(account_index, lookups[t].key)
       IN /\ account_index' = got.index
          /\ lookups' = [lookups EXCEPT ![t] =
                IF got.some
                THEN [@ EXCEPT !.pc = "open", !.slot = got.value[1], !.id = got.value[2]]
                ELSE [@ EXCEPT !.pc = "returned", !.result = NoneAccount]]
    /\ UNCHANGED <<envVars, openVars, segVars, pc, rpc, dir_pos, taken, append_vec,
                   iter_offset, accounts_taken, accounts_bar, unique_accounts_bar,
                   processed, opened, last_open, panic, stdout, run, first_run>>

\* get_account opens accounts/{slot}.{id} through the extractor and unwraps
LookupOpen(t) ==
    /\ pc = "serving"
    /\ lookups[t].pc = "open"
    /\ LET path == SegmentName(lookups[t].slot, lookups[t].id)
           open == open_append_vec(accounts_db_fields, accounts_dir,
                                   lookups[t].slot, lookups[t].id, path)
       IN lookups' = [lookups EXCEPT ![t] =
             IF open.ok
             THEN [@ EXCEPT !.pc = "find", !.vec = open.vec, !.offset = 0,
                            !.opens = open.opens]
             ELSE [@ EXCEPT !.pc = "panicked", !.opens = open.opens]]
    /\ UNCHANGED <<rpcIdleVars, pc, rpc>>

\* get_account has returned to a caller that is not the handler
LookupReturn(t) ==
    /\ pc = "serving"
    /\ t # 0
    /\ lookups[t].pc = "returned"
    /\ lookups' = [lookups EXCEPT ![t] = NoLookup]
    /\ UNCHANGED <<rpcIdleVars, pc, rpc>>

\* `find` looks at the next record of the caller's own iterator
LookupFind(t) ==
    /\ pc = "serving"
    /\ lookups[t].pc = "find"
    /\ lookups' = [lookups EXCEPT ![t] = find_next(lookups[t])]
    /\ UNCHANGED <<rpcIdleVars, pc, rpc>>

\* get_account has returned to the handler: the response is formed
RpcRespond ==
    /\ pc = "serving"
    /\ rpc.pc = "lookup"
    /\ lookups[0].pc = "returned"
    /\ rpc' = [rpc EXCEPT !.pc = "responded",
                          !.response = [kind |-> "Ok", err |-> "",
                                        context |-> extractor.slot,
                                        value |-> lookups[0].result]]
    /\ UNCHANGED <<rpcIdleVars, pc, lookups>>

\* the response has been written: the handler waits for the next request
RpcDone ==
    /\ pc = "serving"
    /\ rpc.pc = "responded"
    /\ rpc' = NoRpc
    /\ lookups' = [lookups EXCEPT ![0] = NoLookup]
    /\ UNCHANGED <<rpcIdleVars, pc>>

NextRpc ==
    \/ LoadFinish \/ NextAppendVec \/ ProcessAccount \/ EndAppendVec
    \/ Bind \/ RpcRequest \/ RpcRespond \/ RpcDone
    \/ \E t \in Callers : \/ LookupCall(t) \/ LookupIndex(t) \/ LookupOpen(t)
                        \/ LookupFind(t) \/ LookupReturn(t)

SpecRpc == InitRpc /\ [][NextRpc]_vars

(* ------------------- properties of the index builder ------------------- *)

ProcessedOf(k) == {i \in 1..Len(processed) : processed[i].pubkey = k}

\* C1: freshness.  At every point of the build the index holds exactly the
\* identities of the records processed so far, and the slot stored for an
\* identity is the greatest slot among the processed records of that identity,
\* in whichever order the segments were processed.
C1_Freshness ==
    /\ DOMAIN account_index = {processed[i].pubkey : i \in 1..Len(processed)}
    /\ \A k \in DOMAIN account_index :
          /\ \E i \in ProcessedOf(k) : processed[i].slot = account_index[k][1]
          /\ \A i \in ProcessedOf(k) : processed[i].slot <= account_index[k][1]

\* a finished build that met an identity first at a lower, then at a higher slot
C1_Witness ==
    /\ pc = "done"
    /\ \E i, j \in 1..Len(processed) :
          /\ i < j
          /\ processed[i].pubkey = processed[j].pubkey
          /\ processed[i].slot < processed[j].slot
          /\ account_index[processed[i].pubkey][1] = processed[j].slot

\* C2: tie-break.  The indexed (slot, id) of an identity is that of the first
\* processed record among those carrying its greatest slot: of two records with
\* the same slot in different segments the one processed first stays, and a
\* later record with an equal or lower slot never changes the entry.
C2_FirstSeenWinsTies ==
    \A k \in DOMAIN account_index :
        \E i \in ProcessedOf(k) :
            /\ \A j \in ProcessedOf(k) : processed[j].slot <= processed[i].slot
            /\ \A j \in ProcessedOf(k) : processed[j].slot = processed[i].slot => i <= j
            /\ account_index[k] = <<processed[i].slot, processed[i].id>>

\* a finished build that met an identity at one slot in two different segments
C2_Witness ==
    /\ pc = "done"
    /\ \E i, j \in 1..Len(processed) :
          /\ i < j
          /\ processed[i].pubkey = processed[j].pubkey
          /\ processed[i].slot = processed[j].slot
          /\ processed[i].id # processed[j].id
          /\ account_index[processed[i].pubkey] = <<processed[i].slot, processed[i].id>>

\* the identities of the records a full iteration of a directory entry yields
IdentitiesOnDisk(entry) ==
    LET parsed == parse_append_vec_name(entry.name)
        open   == open_append_vec(accounts_db_fields, accounts_dir,
                                  parsed.slot, parsed.id, entry.name)
    IN IF parsed.some /\ open.ok
       THEN {get_account(open.vec, append_vec_iter(open.vec)[n]).pubkey :
                n \in 1..Len(append_vec_iter(open.vec))}
       ELSE {}

\* C3: completeness.  When load returns, every identity that appears in a record
\* of a segment under root/accounts/ has an entry in the index.
C3_IndexComplete ==
    pc = "done" =>
        \A n \in 1..Len(accounts_dir) :
            IdentitiesOnDisk(accounts_dir[n]) \subseteq DOMAIN account_index

C5_Counters ==
    /\ accounts_bar = Len(processed)
    /\ unique_accounts_bar = Cardinality(DOMAIN account_index)
    /\ unique_accounts_bar <= accounts_bar

\* a build that has overwritten an entry: more records scanned than identities
C5_Witness ==
    /\ unique_accounts_bar >= 1
    /\ unique_accounts_bar < accounts_bar
    /\ \E i, j \in 1..Len(processed) :
          /\ i < j
          /\ processed[i].pubkey = processed[j].pubkey
          /\ processed[i].slot < processed[j].slot

(* --------------------- properties of the extractor --------------------- *)

Declared(slot, id) ==
    /\ slot \in DOMAIN accounts_db_fields
    /\ \E n \in 1..Len(accounts_db_fields[slot]) : accounts_db_fields[slot][n].id = id

DeclaredLen(slot, id) ==
    LET list == accounts_db_fields[slot]
        n    == CHOOSE m \in 1..Len(list) :
                    list[m].id = id /\ \A l \in 1..(m - 1) : list[l].id # id
    IN list[n].accounts_current_len

\* C9: open_append_vec.  A call for a (slot, id) the registry does not declare
\* returns the unexpected-segment error and opens no file; a call for a declared
\* (slot, id) opens the file once, with the length the registry declares for that
\* (slot, id), and a segment it returns carries that length, slot and id.  The
\* registry is the same after the call.
C9_OpenAppendVec ==
    [][(last_open' # last_open /\ last_open'.called) =>
          /\ accounts_db_fields' = accounts_db_fields
          /\ ~Declared(last_open'.slot, last_open'.id) =>
                /\ ~last_open'.result.ok
                /\ last_open'.result.err = "UnexpectedAppendVec"
                /\ opened' = opened
          /\ Declared(last_open'.slot, last_open'.id) =>
                /\ last_open'.result.err # "UnexpectedAppendVec"
                /\ opened' = Append(opened,
                       [name |-> last_open'.name,
                        current_len |-> DeclaredLen(last_open'.slot, last_open'.id)])
                /\ last_open'.result.ok =>
                      /\ last_open'.result.vec.current_len
                            = DeclaredLen(last_open'.slot, last_open'.id)
                      /\ last_open'.result.vec.slot = last_open'.slot
                      /\ last_open'.result.vec.id = last_open'.id
                      /\ last_open'.result.vec.map
                            = FileAt(accounts_dir, last_open'.name)]_vars

\* a call for an undeclared (slot, id), made beside a declared segment
C9_Witness ==
    /\ last_open.called
    /\ ~Declared(last_open.slot, last_open.id)
    /\ last_open.result.err = "UnexpectedAppendVec"
    /\ accounts_db_fields # <<>>

\* C10: a file name that does not parse is reported and skipped: the scan is
\* not aborted by it, and every entry read so far whose name parses to a declared
\* (slot, id) has been opened.
C10_ParseFailureSkipped ==
    /\ \A n \in 1..dir_pos :
          ~parse_append_vec_name(accounts_dir[n].name).some =>
              /\ \E m \in 1..Len(stdout) : stdout[m] = accounts_dir[n].name
              /\ pc # "panicked"
    /\ \A n \in 1..dir_pos :
          (/\ parse_append_vec_name(accounts_dir[n].name).some
           /\ Declared(parse_append_vec_name(accounts_dir[n].name).slot,
                       parse_append_vec_name(accounts_dir[n].name).id))
              => \E m \in 1..Len(opened) : opened[m].name = accounts_dir[n].name

(* -------------------- properties of the segment reader ----------------- *)

\* C6: open validation.  new_from_file fails, and yields no segment, whenever the
\* physical size is 0, or exceeds the maximum file size, or is less than the
\* declared length; so a segment that was opened has 0 < physical size <=
\* maximum and declared length <= physical size.
C6_OpenValidation ==
    pc # "closed" =>
        /\ (\/ SegFile.size = 0
            \/ SegFile.size > Pow2(MaxFileSizeBits)
            \/ seg_len > SegFile.size)
              => (~open_result.ok /\ pc = "failed" /\ append_vec = NoAppendVec)
        /\ open_result.ok =>
              /\ 0 < SegFile.size
              /\ SegFile.size <= Pow2(MaxFileSizeBits)
              /\ seg_len <= SegFile.size
              /\ append_vec.current_len = seg_len
              /\ append_vec.map = SegFile

\* an open refused only because the declared length exceeds the physical size
C6_Witness ==
    /\ pc = "failed"
    /\ 0 < SegFile.size
    /\ SegFile.size <= Pow2(MaxFileSizeBits)
    /\ seg_len > SegFile.size
    /\ ~open_result.ok

\* C7: get_account(offset) returns None, and loads no field of the record, for
\* every offset for which offset + 48 + 56 + 32 overflows or exceeds the
\* declared length, the offset equal to the declared length included.
C7_HeaderBound ==
    (/\ probe.called
     /\ \/ probe.offset + 136 > Pow2(UsizeBits) - 1
        \/ probe.offset + 136 > append_vec.current_len)
        => (~probe.account.some /\ ~probe.account.data_len_read)

\* a probe at the declared length of a segment that holds records
C7_Witness ==
    /\ probe.called
    /\ append_vec.current_len >= 136
    /\ probe.offset = append_vec.current_len
    /\ ~probe.account.some

\* a segment as a well-formed snapshot holds it: the declared length is the end
\* of the payload of the last stored record, every payload fits the file
ValidSegment ==
    /\ open_result.ok
    /\ SegFile.recs # <<>>
    /\ append_vec.current_len = WrittenEnd(SegFile.recs)

\* C8 as stated: over a valid segment the sum of stored_size never exceeds the
\* declared length and is exactly the declared length when the iteration ends.
C8_SumIsDeclaredLength ==
    ValidSegment =>
        /\ stored_sum <= append_vec.current_len
        /\ pc = "exhausted" => stored_sum = append_vec.current_len

\* C8 amended: over every opened segment the sum of stored_size never exceeds
\* the declared length rounded up to a multiple of 8; over a valid segment the
\* iteration yields every stored record and the sum ends at exactly the
\* declared length rounded up to a multiple of 8.
C8_SumIsAlignedLength ==
    open_result.ok =>
        /\ stored_sum <= ((append_vec.current_len + 7) \div 8) * 8
        /\ (ValidSegment /\ pc = "exhausted") =>
              /\ stored_sum = ((append_vec.current_len + 7) \div 8) * 8
              /\ accounts_taken = Len(SegFile.recs)

\* a finished iteration of a valid segment whose declared length is no multiple of 8
C8_Witness ==
    /\ ValidSegment
    /\ pc = "exhausted"
    /\ accounts_taken = 2
    /\ append_vec.current_len % 8 # 0
    /\ stored_sum > append_vec.current_len

(* ------------------ properties of the extractor's open ----------------- *)

IsFileOp == [op |-> "is_file", name |-> SNAPSHOT_STATUS_CACHE_FILENAME]

\* no regular file named as the status cache marker lies in root/snapshots/
MarkerAbsent ==
    ~\E i \in 1..Len(snapshots_dir) :
        /\ snapshots_dir[i].name = SNAPSHOT_STATUS_CACHE_FILENAME
        /\ snapshots_dir[i].is_file

\* C11: whenever the status cache marker file is absent under root/snapshots/,
\* open fails with NoStatusCache, and it does so before the manifest search and
\* before any decoding: the only step open has taken is the test of the
\* marker, whatever manifests the directory holds.
C11_NoStatusCache ==
    (pc # "open" /\ MarkerAbsent) =>
        /\ pc = "failed"
        /\ extractor.result = "NoStatusCache"
        /\ fs_log = <<IsFileOp>>
        /\ snapshot_files = 0
        /\ snapshot_file_path = <<>>
        /\ accounts_db_fields = <<>>

\* open has failed for the missing marker beside a manifest that would decode
C11_Witness ==
    /\ pc = "failed"
    /\ extractor.result = "NoStatusCache"
    /\ MarkerAbsent
    /\ \E i \in 1..Len(snapshots_dir) :
          /\ snapshots_dir[i].manifest.state = "valid"
          /\ u64_from_str(snapshots_dir[i].name).ok

ManifestEntries == {i \in 1..Len(snapshots_dir) : u64_from_str(snapshots_dir[i].name).ok}

FirstManifestEntry == CHOOSE i \in ManifestEntries : \A j \in ManifestEntries : i <= j

\* C12: with the marker present, open fails with NoSnapshotManifest if and only
\* if no entry of root/snapshots/ has a name that parses as an integer; when
\* such an entry exists, the first one in enumeration order is the manifest
\* that is opened, however many entries precede it.
C12_FirstManifest ==
    (~MarkerAbsent /\ pc \in {"failed", "opened"}) =>
        /\ extractor.result = "NoSnapshotManifest" <=> ManifestEntries = {}
        /\ ManifestEntries # {} =>
              /\ snapshot_file_path = snapshots_dir[FirstManifestEntry].name
              /\ \E n \in 1..Len(fs_log) :
                    fs_log[n] = [op |-> "open", name |-> snapshot_file_path]

(* -------------------- properties of the query service ------------------ *)

\* the service as the handler sees it, with `key` indexed or not
MetaWith(key, indexed) ==
    [slot |-> extractor.slot,
     account_index |->
        IF indexed
        THEN [k \in DOMAIN account_index \cup {key} |->
                 IF k \in DOMAIN account_index THEN account_index[k] ELSE <<1, 1>>]
        ELSE [k \in DOMAIN account_index \ {key} |-> account_index[k]]]

RequestInHand == pc = "serving" /\ rpc.pc # "idle"

Rejected(message) == rpc.response.kind = "Err" /\ rpc.response.err = message

RequestIndexed ==
    /\ verify_pubkey(rpc.pubkey).ok
    /\ verify_pubkey(rpc.pubkey).key \in DOMAIN account_index

\* C13: a getAccountInfo request whose encoding is not base64 is rejected
\* before the index is read or a segment opened, and the rejection is the one
\* the handler gives in the service state with the identity indexed and in the
\* one with it not indexed.
C13_EncodingRejectedFirst ==
    (RequestInHand /\ rpc.config.value.encoding # "Base64") =>
        /\ rpc.pc = "responded"
        /\ rpc.response.kind = "Err"
        /\ ~rpc.looked_up
        /\ lookups[0] = NoLookup
        /\ \A indexed \in BOOLEAN :
              get_account_info_checks(MetaWith(rpc.pubkey.key, indexed),
                                      rpc.pubkey, rpc.config) = rpc.response

\* a request for an indexed identity rejected for its base58 encoding
C13_Witness ==
    /\ RequestInHand
    /\ rpc.pc = "responded"
    /\ rpc.config.some
    /\ rpc.config.value.encoding = "Base58"
    /\ RequestIndexed
    /\ Rejected("Expected base64 encoding")

MinContextSlotAhead ==
    /\ rpc.config.value.min_context_slot.some
    /\ rpc.config.value.min_context_slot.value > extractor.slot

\* C14: a request whose min_context_slot is greater than the canonical slot is
\* rejected, with the identity indexed or not and without a lookup; a request
\* whose min_context_slot is absent or at most the canonical slot is never
\* rejected as not having reached the slot.
C14_MinContextSlot ==
    RequestInHand =>
        /\ MinContextSlotAhead =>
              /\ rpc.pc = "responded"
              /\ rpc.response.kind = "Err"
              /\ ~rpc.looked_up
              /\ \A indexed \in BOOLEAN :
                    get_account_info_checks(MetaWith(rpc.pubkey.key, indexed),
                                            rpc.pubkey, rpc.config) = rpc.response
        /\ Rejected("Min context slot not reached") => MinContextSlotAhead

\* a base64 request for an indexed identity rejected for its min_context_slot
C14_Witness ==
    /\ RequestInHand
    /\ rpc.pc = "responded"
    /\ MinContextSlotAhead
    /\ RequestIndexed
    /\ Rejected("Min context slot not reached")

\* the request passes every check of the handler
ValidRequest ==
    /\ rpc.pubkey.base58
    /\ rpc.config.some
    /\ rpc.config.value.encoding = "Base64"
    /\ ~rpc.config.value.data_slice
    /\ ~MinContextSlotAhead

\* the handler has finished: with a response, or by a panic in get_account
RequestFinished ==
    RequestInHand /\ (rpc.pc = "responded" \/ lookups[0].pc = "panicked")

\* the segment accounts/{slot}.{id} of an index entry, as declared
EntrySegment(entry) ==
    [map |-> FileAt(accounts_dir, SegmentName(entry[1], entry[2])),
     current_len |-> DeclaredLen(entry[1], entry[2]),
     slot |-> entry[1], id |-> entry[2]]

\* offsets of the records with identity `key` that a scan of the segment from
\* offset 0 comes by
MatchesIn(vec, key) ==
    {append_vec_iter(vec)[n] : n \in {m \in 1..Len(append_vec_iter(vec)) :
        get_account(vec, append_vec_iter(vec)[m]).pubkey = key}}

\* C15: the point lookup.  For a valid request, an identity that is absent
\* from the index gets a successful not-found response with the canonical slot
\* as context and no segment opened; an identity indexed at (slot, id) gets a
\* response with the canonical slot as context that carries the record with
\* that identity found by scanning accounts/{slot}.{id} from offset 0.
C15_PointLookup ==
    (RequestFinished /\ ValidRequest) =>
        /\ rpc.pc = "responded"
        /\ rpc.response.kind = "Ok"
        /\ rpc.response.context = extractor.slot
        /\ ~RequestIndexed =>
              /\ ~rpc.response.value.some
              /\ lookups[0].opens = <<>>
        /\ RequestIndexed =>
              LET key   == rpc.pubkey.key
                  entry == account_index[key]
              IN /\ rpc.response.value.some
                 /\ Exists(accounts_dir, SegmentName(entry[1], entry[2]))
                 /\ LET vec == EntrySegment(entry)
                    IN /\ MatchesIn(vec, key) # {}
                       /\ rpc.response.value.value.file = SegmentName(entry[1], entry[2])
                       /\ rpc.response.value.value.map = vec.map
                       /\ rpc.response.value.value.pubkey = key
                       /\ \A o \in MatchesIn(vec, key) :
                             rpc.response.value.value.offset <= o
                       /\ rpc.response.value.value.offset \in MatchesIn(vec, key)

\* C16: once the index is built, lookups are read-only.  Under every
\* interleaving of the steps of concurrent get_account calls the index, the
\* canonical slot and the registry stay as they are, and a call that has ended
\* has ended as the same call run alone ends, with the same result.
C16_LookupsReadOnly ==
    /\ [](pc = "serving" =>
            \A t \in Callers :
                lookups[t].pc \in {"returned", "panicked"} =>
                    LET alone == HistoricalRpc_get_account(account_index,
                                     accounts_db_fields, accounts_dir, lookups[t].key)
                    IN /\ lookups[t].pc = alone.pc
                       /\ lookups[t].result = alone.result)
    /\ [][pc = "serving" =>
            /\ account_index' = account_index
            /\ extractor' = extractor
            /\ accounts_db_fields' = accounts_db_fields
            /\ accounts_dir' = accounts_dir]_vars

\* two calls for one identity are scanning the same segment at the same time,
\* one of them past its first record
C16_Witness ==
    /\ pc = "serving"
    /\ lookups[0].pc = "find"
    /\ lookups[1].pc = "find"
    /\ lookups[0].key = lookups[1].key
    /\ lookups[0].offset = 0
    /\ lookups[1].offset > 0

\* C20: index soundness.  Every entry identity -> (slot, id) of the finished
\* index names a segment the registry declares, whose file accounts/{slot}.{id}
\* holds, within reach of the iterator, a record with that identity; so
\* get_account opens the segment and finds a match for every indexed identity,
\* and no call of get_account ends in a panic.
C20_IndexSound ==
    pc \in {"done", "serving"} =>
        /\ \A k \in DOMAIN account_index :
              LET entry == account_index[k]
              IN /\ Declared(entry[1], entry[2])
                 /\ Exists(accounts_dir, SegmentName(entry[1], entry[2]))
                 /\ MatchesIn(EntrySegment(entry), k) # {}
                 /\ HistoricalRpc_get_account(account_index, accounts_db_fields,
                                              accounts_dir, k).pc = "returned"
        /\ pc = "serving" => \A t \in Callers : lookups[t].pc # "panicked"

(* ------------- bounds, termination and alignment of the reader --------- *)

\* what a get_account call at `offset` may reference: every range it formed
\* lies within [0, declared length], and a record it returned has its
\* metadata header, attributes header, hash and payload there, with no sum
\* past the greatest usize
RefsWithin(account, offset) ==
    /\ \A r \in account.refs :
          0 <= r[1] /\ r[1] <= r[2] /\ r[2] <= append_vec.current_len
    /\ account.some =>
          /\ account.refs = {<<offset, offset + 48>>,
                             <<offset + 48, offset + 104>>,
                             <<offset + 104, offset + 136>>,
                             <<offset + 136, offset + 136 + account.data_len>>}
          /\ offset + 136 + account.data_len <= append_vec.current_len
          /\ append_vec.current_len <= append_vec.map.size
          /\ account.next >= offset + 136 + account.data_len
    /\ offset + 136 + StoredMetaAt(append_vec.map, offset).data_len > Pow2(UsizeBits) - 1
          => ~account.some

\* C17: bounds safety of the segment reader.  For every offset, those near the
\* greatest usize included, and every inline data length, the byte ranges
\* get_account references lie within [0, declared length] of the segment, a
\* record it returns has its four regions there, and a sum that overflows
\* gives None and no wrapped offset.
C17_BoundsSafety ==
    open_result.ok =>
        /\ probe.called => RefsWithin(probe.account, probe.offset)
        /\ RefsWithin(get_account(append_vec, iter_offset), iter_offset)

\* a probe near the greatest usize whose header sum overflows, on a segment
\* that holds a record with a payload
C17_Witness ==
    /\ open_result.ok
    /\ probe.called
    /\ probe.offset + 136 > Pow2(UsizeBits) - 1
    /\ ~probe.account.some
    /\ get_account(append_vec, 0).some
    /\ get_account(append_vec, 0).data_len > 0

RoundUp(n, boundary) == ((n + (boundary - 1)) \div boundary) * boundary

\* C18: the record iterator terminates on every segment.  The first handle has
\* offset 0; each following handle's offset is the next offset get_account
\* returned for the handle before it, and is greater; a segment yields no more
\* handles than records of 136 bytes fit its declared length, so the polls
\* come to an end; the sequence ends at the first offset where get_account
\* returns None, and no handle follows.
C18_IteratorTerminates ==
    /\ [](/\ handles # <<>> => handles[1] = 0
          /\ Len(handles) <= append_vec.current_len \div 136
          /\ iter_offset <= RoundUp(append_vec.current_len, 8)
          /\ \A n \in 1..Len(handles) : get_account(append_vec, handles[n]).some
          /\ \A n \in 2..Len(handles) :
                /\ handles[n] = get_account(append_vec, handles[n - 1]).next
                /\ handles[n] > handles[n - 1]
          /\ pc = "exhausted" =>
                /\ ~get_account(append_vec, iter_offset).some
                /\ iter_offset = IF handles = <<>> THEN 0
                                 ELSE get_account(append_vec, handles[Len(handles)]).next
                /\ handles = append_vec_iter(append_vec))
    /\ [][/\ pc = "exhausted" => (pc' = "exhausted" /\ handles' = handles)
          /\ handles' # handles =>
                /\ handles' = Append(handles, iter_offset)
                /\ iter_offset' = get_account(append_vec, iter_offset).next
                /\ iter_offset' > iter_offset]_vars

\* an iteration of two records that has ended
C18_Witness ==
    /\ pc = "exhausted"
    /\ Len(handles) = 2
    /\ handles[2] > handles[1]

RequestConfig == IF rpc.config.some THEN rpc.config.value ELSE DefaultConfig

\* C21: a getAccountInfo request with no configuration, or with a
\* configuration that has no encoding, is rejected as invalid params without a
\* lookup, with the identity indexed or not; and for a pubkey that verifies the
\* rejection names the first check that fails in the order encoding,
\* data_slice, min_context_slot.
C21_AbsentEncodingAndOrder ==
    RequestInHand =>
        /\ (~rpc.config.some \/ rpc.config.value.encoding = "None") =>
              /\ rpc.pc = "responded"
              /\ rpc.response.kind = "Err"
              /\ ~rpc.looked_up
              /\ lookups[0] = NoLookup
              /\ rpc.pubkey.base58 => Rejected("Expected base64 encoding")
              /\ \A indexed \in BOOLEAN :
                    get_account_info_checks(MetaWith(rpc.pubkey.key, indexed),
                                            rpc.pubkey, rpc.config) = rpc.response
        /\ rpc.pubkey.base58 =>
              /\ Rejected("Expected base64 encoding") <=> RequestConfig.encoding # "Base64"
              /\ Rejected("Account data_slice unsupported")
                    <=> (RequestConfig.encoding = "Base64" /\ RequestConfig.data_slice)
              /\ Rejected("Min context slot not reached")
                    <=> /\ RequestConfig.encoding = "Base64"
                        /\ ~RequestConfig.data_slice
                        /\ MinContextSlotAhead
              /\ rpc.response.kind = "Err"
                    <=> \/ RequestConfig.encoding # "Base64"
                        \/ RequestConfig.data_slice
                        \/ MinContextSlotAhead

\* a request for an indexed identity whose configuration has no encoding, asks
\* for a data_slice and a min_context_slot ahead of the canonical slot: it
\* fails all three checks and is rejected for its encoding
C21_Witness ==
    /\ RequestInHand
    /\ rpc.pc = "responded"
    /\ rpc.config.some
    /\ rpc.config.value.encoding = "None"
    /\ rpc.config.value.data_slice
    /\ MinContextSlotAhead
    /\ RequestIndexed
    /\ Rejected("Expected base64 encoding")

====
